---------------------------- MODULE Spec2Model ----------------------------
(***************************************************************************)
(* Model of package directedgraph (src/directedgraph/directedgraph.go):    *)
(* a directed graph guarded by one sync.RWMutex, with cycle detection and  *)
(* topological sort.                                                       *)
(*                                                                         *)
(* Threads (goroutines) call the exported methods.  Every method is split  *)
(* into the steps at which other goroutines can interleave: the call, the  *)
(* acquisition of the lock, the statements of the critical section, and    *)
(* the return (which runs the deferred unlock, where the method has one).  *)
(* Every `range` over a Go map picks the remaining elements in any order.  *)
(* The inner maps of g.edges only ever receive the value true (line 86),   *)
(* so each is modelled as the set of its keys, and the `active` tests of   *)
(* lines 99, 132 and 206 always pass.                                      *)
(***************************************************************************)
EXTENDS Integers, Sequences, FiniteSets, TLC

VARIABLES
    nodes,      \* g.nodes: key -> value (a function whose domain is the key set)
    edges,      \* g.edges: key -> set of keys mapped to true in the inner map
    readers,    \* g.lock: number of read locks currently held
    writer,     \* g.lock: the thread holding the write lock, or NoThread
    pc,         \* per thread: the statement it is at
    op,         \* per thread: the call in progress (method and arguments)
    ret,        \* per thread: what its last completed call returned
    calls,      \* number of calls issued so far
    seen,       \* per thread: local map `seen` of IsCyclic / TopSort
    rs,         \* per thread: local map `rs` of IsCyclic
    stack,      \* per thread: active isCyclicDFS / topSort calls, outermost first
    todo,       \* per thread: keys the outer `range g.nodes` has not yielded yet
    order,      \* per thread: local slice `order` of TopSort (index from 0)
    idx,        \* per thread: local `i` of TopSort
    data,       \* q.data: the items of the queue, oldest first
    qreaders,   \* q.lock: number of read locks currently held
    qwriter     \* q.lock: the thread holding the write lock, or NoThread

vars == <<nodes, edges, readers, writer, pc, op, ret, calls,
          seen, rs, stack, todo, order, idx, data, qreaders, qwriter>>

graphVars == <<nodes, edges>>
lockVars == <<readers, writer>>
travVars == <<seen, rs, stack, todo, order, idx>>
queueVars == <<data, qreaders, qwriter>>

(***************************************************************************)
(* Bounds                                                                  *)
(***************************************************************************)
MaxCalls == 4       \* calls issued in one behaviour of Spec
GraphKeys == 3      \* keys of the graphs the traversal specifications start from
MaxEdges == 4       \* edges of the graphs the traversal specifications start from
NumWriters == 2     \* N of the add-then-read scenario
NumReaders == 2     \* M of the add-then-read scenario
MaxReads == 2       \* reads issued by the readers of the scenario
MaxTravCalls == 1   \* traversals run on one graph of the traversal specification

KeyNames == <<"a", "b", "c", "d", "e", "f">>
KeySet(n) == {KeyNames[j] : j \in 1..n}
Keys == {"a", "b"}   \* keys the callers of Spec draw their arguments from
Values == {"v1", "v2"}
Threads == {1, 2}    \* goroutines of Spec
NoThread == 0

ErrorNodeNotFound == "node not found"
ErrorNodeAlreadyExists == "node already exists"
Nil == "nil"

NoOp == [name |-> "none"]
NoRet == [name |-> "none"]

\* All enumerations of the finite set S: the orders a `range` over a map can take.
RECURSIVE Perms(_)
Perms(S) ==
    IF S = {} THEN {<<>>}
    ELSE UNION {{<<x>> \o p : p \in Perms(S \ {x})} : x \in S}

Has(key) == key \in DOMAIN nodes

(***************************************************************************)
(* sync.RWMutex, as the methods use it.  Lock and RLock block until their  *)
(* guard holds; Unlock and RUnlock never block.  A Lock that is waiting    *)
(* also holds back new RLocks in Go; that only removes interleavings and   *)
(* is not modelled.  Read locks have no owner: `readers` counts them.      *)
(***************************************************************************)
CanLock == writer = NoThread /\ readers = 0
CanRLock == writer = NoThread

Lock(t, next) ==
    /\ CanLock
    /\ writer' = t
    /\ readers' = readers
    /\ pc' = [pc EXCEPT ![t] = next]

RLock(t, next) ==
    /\ CanRLock
    /\ readers' = readers + 1
    /\ writer' = writer
    /\ pc' = [pc EXCEPT ![t] = next]

\* return of a method whose unlock has run: the call is over, result r
Return(t, r) ==
    /\ pc' = [pc EXCEPT ![t] = "idle"]
    /\ op' = [op EXCEPT ![t] = NoOp]
    /\ ret' = [ret EXCEPT ![t] = r]

Result(t, err, val) ==
    [name |-> op[t].name, args |-> op[t].args, err |-> err, val |-> val]

Unlock == writer' = NoThread /\ readers' = readers
RUnlock == readers' = readers - 1 /\ writer' = writer

(***************************************************************************)
(* A caller invokes a method: CallsOn(K) are the calls with keys from K.   *)
(***************************************************************************)
Invoke(t, c) ==
    /\ pc[t] = "idle"
    /\ pc' = [pc EXCEPT ![t] = c.name \o "_lock"]
    /\ op' = [op EXCEPT ![t] = c]
    /\ ret' = [ret EXCEPT ![t] = NoRet]
    /\ calls' = calls + 1
    /\ UNCHANGED <<graphVars, lockVars, travVars, queueVars>>

CallsOn(K) ==
    {[name |-> "NewNode", args |-> <<k, v>>] : k \in K, v \in Values}
    \cup {[name |-> "Value", args |-> <<k>>] : k \in K}
    \cup {[name |-> "UpdateValue", args |-> <<k, v>>] : k \in K, v \in Values}
    \cup {[name |-> "NewEdge", args |-> <<k, l>>] : k \in K, l \in K}
    \cup {[name |-> "Edges", args |-> <<k>>] : k \in K}
    \cup {[name |-> n, args |-> <<>>] : n \in {"Nodes", "IsCyclic", "TopSort", "String"}}

Call(t) ==
    /\ calls < MaxCalls
    /\ \E c \in CallsOn(Keys) : Invoke(t, c)

(***************************************************************************)
(* NewNode (lines 37-48)                                                   *)
(***************************************************************************)
\* mutant: RLock where line 38 calls Lock
NewNodeLock_Shared(t) ==
    /\ pc[t] = "NewNode_lock"
    /\ RLock(t, "NewNode_check")
    /\ UNCHANGED <<graphVars, op, ret, calls, queueVars, travVars>>

NewNodeLock(t) ==
    /\ pc[t] = "NewNode_lock"
    /\ Lock(t, "NewNode_check")
    /\ UNCHANGED <<graphVars, op, ret, calls, queueVars, travVars>>

\* mutant: the test of line 41 left out, an existing node is created anew
NewNodeExists_Overwrite(t) ==
    /\ pc[t] = "NewNode_check"
    /\ Has(op[t].args[1])
    /\ pc' = [pc EXCEPT ![t] = "NewNode_store"]
    /\ UNCHANGED <<graphVars, lockVars, op, ret, calls, queueVars, travVars>>

\* line 41: the key exists: return the error (the deferred Unlock runs)
NewNodeExists(t) ==
    /\ pc[t] = "NewNode_check"
    /\ Has(op[t].args[1])
    /\ Unlock
    /\ Return(t, Result(t, ErrorNodeAlreadyExists, Nil))
    /\ UNCHANGED <<graphVars, calls, queueVars, travVars>>

\* mutant: the lock is released once the test of line 41 has passed, the
\* stores of lines 44-45 run without it
NewNodeFresh_Unlocks(t) ==
    /\ pc[t] = "NewNode_check"
    /\ ~Has(op[t].args[1])
    /\ Unlock
    /\ pc' = [pc EXCEPT ![t] = "NewNode_store"]
    /\ UNCHANGED <<graphVars, op, ret, calls, queueVars, travVars>>

\* line 41: the key is new: go on to line 44
NewNodeFresh(t) ==
    /\ pc[t] = "NewNode_check"
    /\ ~Has(op[t].args[1])
    /\ pc' = [pc EXCEPT ![t] = "NewNode_store"]
    /\ UNCHANGED <<graphVars, lockVars, op, ret, calls, queueVars, travVars>>

\* line 44: g.nodes[key] = value
NewNodeStore(t) ==
    /\ pc[t] = "NewNode_store"
    /\ nodes' = (op[t].args[1] :> op[t].args[2]) @@ nodes
    /\ pc' = [pc EXCEPT ![t] = "NewNode_edges"]
    /\ UNCHANGED <<edges, lockVars, op, ret, calls, queueVars, travVars>>

\* mutant: line 39 left out, NewNode returns with the lock held
NewNodeEdges_NoUnlock(t) ==
    /\ pc[t] = "NewNode_edges"
    /\ edges' = (op[t].args[1] :> {}) @@ edges
    /\ UNCHANGED lockVars
    /\ Return(t, Result(t, Nil, Nil))
    /\ UNCHANGED <<nodes, calls, queueVars, travVars>>

\* lines 45-47: g.edges[key] = make(...); return nil (the deferred Unlock runs)
NewNodeEdges(t) ==
    /\ pc[t] = "NewNode_edges"
    /\ edges' = (op[t].args[1] :> {}) @@ edges
    /\ Unlock
    /\ Return(t, Result(t, Nil, Nil))
    /\ UNCHANGED <<nodes, calls, queueVars, travVars>>

NewNode(t) ==
    NewNodeLock(t) \/ NewNodeExists(t) \/ NewNodeFresh(t) \/ NewNodeStore(t)
    \/ NewNodeEdges(t)

(***************************************************************************)
(* Value (lines 51-60)                                                     *)
(***************************************************************************)
ValueLock(t) ==
    /\ pc[t] = "Value_lock"
    /\ RLock(t, "Value_body")
    /\ UNCHANGED <<graphVars, op, ret, calls, queueVars, travVars>>

ValueBody(t) ==
    /\ pc[t] = "Value_body"
    /\ RUnlock
    /\ Return(t, IF Has(op[t].args[1])
                 THEN Result(t, Nil, nodes[op[t].args[1]])
                 ELSE Result(t, ErrorNodeNotFound, Nil))
    /\ UNCHANGED <<graphVars, calls, queueVars, travVars>>

Value(t) == ValueLock(t) \/ ValueBody(t)

(***************************************************************************)
(* UpdateValue (lines 63-72)                                               *)
(***************************************************************************)
\* mutant: RLock where line 64 calls Lock
UpdateValueLock_Shared(t) ==
    /\ pc[t] = "UpdateValue_lock"
    /\ RLock(t, "UpdateValue_body")
    /\ UNCHANGED <<graphVars, op, ret, calls, queueVars, travVars>>

UpdateValueLock(t) ==
    /\ pc[t] = "UpdateValue_lock"
    /\ Lock(t, "UpdateValue_body")
    /\ UNCHANGED <<graphVars, op, ret, calls, queueVars, travVars>>

\* mutant: the update also renews the adjacency entry, as NewNode creates it
UpdateValueBody_ResetsEdges(t) ==
    /\ pc[t] = "UpdateValue_body"
    /\ IF Has(op[t].args[1])
       THEN /\ nodes' = [nodes EXCEPT ![op[t].args[1]] = op[t].args[2]]
            /\ edges' = [edges EXCEPT ![op[t].args[1]] = {}]
            /\ Return(t, Result(t, Nil, Nil))
       ELSE /\ nodes' = nodes
            /\ edges' = edges
            /\ Return(t, Result(t, ErrorNodeNotFound, Nil))
    /\ Unlock
    /\ UNCHANGED <<calls, queueVars, travVars>>

\* mutant: the test of line 67 left out, an absent key is created
UpdateValueBody_Upsert(t) ==
    /\ pc[t] = "UpdateValue_body"
    /\ nodes' = (op[t].args[1] :> op[t].args[2]) @@ nodes
    /\ Return(t, Result(t, Nil, Nil))
    /\ Unlock
    /\ UNCHANGED <<edges, calls, queueVars, travVars>>

UpdateValueBody(t) ==
    /\ pc[t] = "UpdateValue_body"
    /\ IF Has(op[t].args[1])
       THEN /\ nodes' = [nodes EXCEPT ![op[t].args[1]] = op[t].args[2]]
            /\ Return(t, Result(t, Nil, Nil))
       ELSE /\ nodes' = nodes
            /\ Return(t, Result(t, ErrorNodeNotFound, Nil))
    /\ Unlock
    /\ UNCHANGED <<edges, calls, queueVars, travVars>>

UpdateValue(t) == UpdateValueLock(t) \/ UpdateValueBody(t)

(***************************************************************************)
(* NewEdge (lines 75-88)                                                   *)
(***************************************************************************)
NewEdgeLock(t) ==
    /\ pc[t] = "NewEdge_lock"
    /\ Lock(t, "NewEdge_body")
    /\ UNCHANGED <<graphVars, op, ret, calls, queueVars, travVars>>

\* mutant: an edge that exists already is refused, as NewNode refuses a key
NewEdgeBody_NoDuplicate(t) ==
    /\ pc[t] = "NewEdge_body"
    /\ IF ~Has(op[t].args[1]) \/ ~Has(op[t].args[2])
       THEN /\ edges' = edges
            /\ Return(t, Result(t, ErrorNodeNotFound, Nil))
       ELSE IF op[t].args[2] \in edges[op[t].args[1]]
       THEN /\ edges' = edges
            /\ Return(t, Result(t, ErrorNodeAlreadyExists, Nil))
       ELSE /\ edges' = [edges EXCEPT ![op[t].args[1]] = @ \cup {op[t].args[2]}]
            /\ Return(t, Result(t, Nil, Nil))
    /\ Unlock
    /\ UNCHANGED <<nodes, calls, queueVars, travVars>>

\* mutant: the test of lines 82-84 left out, `to` is not looked up
NewEdgeBody_ToUnchecked(t) ==
    /\ pc[t] = "NewEdge_body"
    /\ IF ~Has(op[t].args[1])
       THEN /\ edges' = edges
            /\ Return(t, Result(t, ErrorNodeNotFound, Nil))
       ELSE /\ edges' = [edges EXCEPT ![op[t].args[1]] = @ \cup {op[t].args[2]}]
            /\ Return(t, Result(t, Nil, Nil))
    /\ Unlock
    /\ UNCHANGED <<nodes, calls, queueVars, travVars>>

NewEdgeBody(t) ==
    /\ pc[t] = "NewEdge_body"
    /\ IF ~Has(op[t].args[1]) \/ ~Has(op[t].args[2])
       THEN /\ edges' = edges
            /\ Return(t, Result(t, ErrorNodeNotFound, Nil))
       ELSE /\ edges' = [edges EXCEPT ![op[t].args[1]] = @ \cup {op[t].args[2]}]
            /\ Return(t, Result(t, Nil, Nil))
    /\ Unlock
    /\ UNCHANGED <<nodes, calls, queueVars, travVars>>

NewEdge(t) == NewEdgeLock(t) \/ NewEdgeBody(t)

(***************************************************************************)
(* Edges (lines 91-106).  The error return at line 96 comes before the     *)
(* RUnlock of line 103 and the method defers nothing: the read lock stays  *)
(* held.                                                                   *)
(***************************************************************************)
EdgesLock(t) ==
    /\ pc[t] = "Edges_lock"
    /\ RLock(t, "Edges_body")
    /\ UNCHANGED <<graphVars, op, ret, calls, queueVars, travVars>>

EdgesNotFound(t) ==
    /\ pc[t] = "Edges_body"
    /\ ~Has(op[t].args[1])
    /\ UNCHANGED lockVars
    /\ Return(t, Result(t, ErrorNodeNotFound, <<>>))
    /\ UNCHANGED <<graphVars, calls, queueVars, travVars>>

\* mutant: line 100 appends `from` where it should append `to`
EdgesFound_From(t) ==
    /\ pc[t] = "Edges_body"
    /\ Has(op[t].args[1])
    /\ RUnlock
    /\ Return(t, Result(t, Nil, [j \in 1..Cardinality(edges[op[t].args[1]])
                                   |-> op[t].args[1]]))
    /\ UNCHANGED <<graphVars, calls, queueVars, travVars>>

EdgesFound(t) ==
    /\ pc[t] = "Edges_body"
    /\ Has(op[t].args[1])
    /\ RUnlock
    /\ \E s \in Perms(edges[op[t].args[1]]) : Return(t, Result(t, Nil, s))
    /\ UNCHANGED <<graphVars, calls, queueVars, travVars>>

Edges(t) == EdgesLock(t) \/ EdgesNotFound(t) \/ EdgesFound(t)

(***************************************************************************)
(* Nodes (lines 109-120)                                                   *)
(***************************************************************************)
NodesLock(t) ==
    /\ pc[t] = "Nodes_lock"
    /\ RLock(t, "Nodes_body")
    /\ UNCHANGED <<graphVars, op, ret, calls, queueVars, travVars>>

NodesBody(t) ==
    /\ pc[t] = "Nodes_body"
    /\ RUnlock
    /\ \E s \in Perms(DOMAIN nodes) : Return(t, Result(t, Nil, s))
    /\ UNCHANGED <<graphVars, calls, queueVars, travVars>>

Nodes(t) == NodesLock(t) \/ NodesBody(t)

(***************************************************************************)
(* String (lines 199-214): one line per node, followed by one line per     *)
(* outgoing edge of that node.                                             *)
(***************************************************************************)
RECURSIVE Dump(_, _)
Dump(ks, es) ==
    IF ks = <<>> THEN <<>>
    ELSE <<<<"node", Head(ks), nodes[Head(ks)]>>>>
         \o [j \in 1..Len(es[Head(ks)]) |-> <<"edge", es[Head(ks)][j]>>]
         \o Dump(Tail(ks), es)

StringLock(t) ==
    /\ pc[t] = "String_lock"
    /\ RLock(t, "String_body")
    /\ UNCHANGED <<graphVars, op, ret, calls, queueVars, travVars>>

StringBody(t) ==
    /\ pc[t] = "String_body"
    /\ RUnlock
    /\ \E ks \in Perms(DOMAIN nodes) :
         \E es \in [DOMAIN nodes -> UNION {Perms(edges[k]) : k \in DOMAIN nodes}] :
            /\ \A k \in DOMAIN nodes : es[k] \in Perms(edges[k])
            /\ Return(t, Result(t, Nil, Dump(ks, es)))
    /\ UNCHANGED <<graphVars, calls, queueVars, travVars>>

String(t) == StringLock(t) \/ StringBody(t)

(***************************************************************************)
(* IsCyclic (lines 145-161) and isCyclicDFS (lines 125-141).               *)
(* A frame of `stack` is one active isCyclicDFS call: its key and the      *)
(* successors its `range g.edges[key]` has still to yield.                 *)
(***************************************************************************)
Frame(key) == [key |-> key, rest |-> edges[key]]
Top(t) == stack[t][Len(stack[t])]
Pop(t) == SubSeq(stack[t], 1, Len(stack[t]) - 1)
\* the top frame's range has yielded `to`
Yield(t, to) == [stack[t] EXCEPT ![Len(stack[t])].rest = @ \ {to}]

NoLocals(t) ==
    /\ seen' = [seen EXCEPT ![t] = {}]
    /\ rs' = [rs EXCEPT ![t] = {}]
    /\ stack' = [stack EXCEPT ![t] = <<>>]
    /\ todo' = [todo EXCEPT ![t] = {}]
    /\ order' = [order EXCEPT ![t] = <<>>]
    /\ idx' = [idx EXCEPT ![t] = 0]

\* mutant: the test of lines 127-129 left out
OnPath_Never(t, key) == FALSE

\* line 127: rs[key]
OnPath(t, key) == key \in rs[t]

\* mutant: line 138 clears rs[key], the mark of the caller, where it should
\* clear rs[to]
ClearPath_Caller(t, to) == rs[t] \ {stack[t][Len(stack[t]) - 1].key}

\* mutant: line 138 left out, the mark of an explored successor stays set
ClearPath_Never(t, to) == rs[t]

\* line 138: rs[to] = false, run by the caller after the call on `to` returned false
ClearPath(t, to) == rs[t] \ {to}

\* lines 146-150: RLock, seen := empty map, the range over g.nodes starts
IsCyclicLock(t) ==
    /\ pc[t] = "IsCyclic_lock"
    /\ RLock(t, "IsCyclic_loop")
    /\ seen' = [seen EXCEPT ![t] = {}]
    /\ todo' = [todo EXCEPT ![t] = DOMAIN nodes]
    /\ UNCHANGED <<graphVars, op, ret, calls, queueVars, rs, stack, order, idx>>

\* line 160: the range is exhausted: return false (the deferred RUnlock runs)
IsCyclicDone(t) ==
    /\ pc[t] = "IsCyclic_loop"
    /\ todo[t] = {}
    /\ RUnlock
    /\ Return(t, Result(t, Nil, FALSE))
    /\ NoLocals(t)
    /\ UNCHANGED <<graphVars, calls, queueVars>>

\* lines 151-153: the key yielded has been seen: continue
IsCyclicSkip(t) ==
    /\ pc[t] = "IsCyclic_loop"
    /\ \E key \in todo[t] :
         /\ key \in seen[t]
         /\ todo' = [todo EXCEPT ![t] = @ \ {key}]
    /\ UNCHANGED <<graphVars, lockVars, pc, op, ret, calls, queueVars, seen, rs, stack, order, idx>>

\* lines 154-155 and 126-130: a fresh rs, and isCyclicDFS is entered on the key
IsCyclicRoot(t) ==
    /\ pc[t] = "IsCyclic_loop"
    /\ \E key \in todo[t] :
         /\ key \notin seen[t]
         /\ todo' = [todo EXCEPT ![t] = @ \ {key}]
         /\ seen' = [seen EXCEPT ![t] = @ \cup {key}]
         /\ rs' = [rs EXCEPT ![t] = {key}]
         /\ stack' = [stack EXCEPT ![t] = <<Frame(key)>>]
    /\ pc' = [pc EXCEPT ![t] = "IsCyclic_dfs"]
    /\ UNCHANGED <<graphVars, lockVars, op, ret, calls, queueVars, order, idx>>

\* lines 131-132, 126-128 and 133, 156: the range yields `to`, isCyclicDFS(to)
\* finds rs[to] set and returns true, and so does every caller up to IsCyclic
DFSBackEdge(t) ==
    /\ pc[t] = "IsCyclic_dfs"
    /\ \E to \in Top(t).rest : OnPath(t, to)
    /\ RUnlock
    /\ Return(t, Result(t, Nil, TRUE))
    /\ NoLocals(t)
    /\ UNCHANGED <<graphVars, calls, queueVars>>

\* lines 131-132 and 126-130: the range yields `to`, isCyclicDFS(to) is entered
DFSDescend(t) ==
    /\ pc[t] = "IsCyclic_dfs"
    /\ \E to \in Top(t).rest :
         /\ ~OnPath(t, to)
         /\ seen' = [seen EXCEPT ![t] = @ \cup {to}]
         /\ rs' = [rs EXCEPT ![t] = @ \cup {to}]
         /\ stack' = [stack EXCEPT ![t] = Append(Yield(t, to), Frame(to))]
    /\ UNCHANGED <<graphVars, lockVars, pc, op, ret, calls, queueVars, todo, order, idx>>

\* line 140: the range is exhausted: return false; a calling isCyclicDFS then
\* runs line 138, the calling IsCyclic goes on with its range
DFSReturn(t) ==
    /\ pc[t] = "IsCyclic_dfs"
    /\ Top(t).rest = {}
    /\ stack' = [stack EXCEPT ![t] = Pop(t)]
    /\ IF Len(stack[t]) > 1
       THEN /\ rs' = [rs EXCEPT ![t] = ClearPath(t, Top(t).key)]
            /\ pc' = pc
       ELSE /\ rs' = rs
            /\ pc' = [pc EXCEPT ![t] = "IsCyclic_loop"]
    /\ UNCHANGED <<graphVars, lockVars, op, ret, calls, queueVars, seen, todo, order, idx>>

IsCyclic(t) ==
    IsCyclicLock(t) \/ IsCyclicDone(t) \/ IsCyclicSkip(t) \/ IsCyclicRoot(t)
    \/ DFSBackEdge(t) \/ DFSDescend(t) \/ DFSReturn(t)

(***************************************************************************)
(* TopSort (lines 181-196) and topSort (lines 164-175).  `i` is passed to  *)
(* topSort and replaced by what it returns, at lines 171 and 193 alike, so *)
(* one idx per TopSort call holds it.  A write outside the slice panics.   *)
(***************************************************************************)
\* line 185: order := make([]string, len(g.nodes))
NewOrder(n) == [j \in 0..(n - 1) |-> ""]

\* mutant: i := len(order)
FirstIndex_Len(n) == n

\* line 186: i := len(order) - 1
FirstIndex(n) == n - 1

\* lines 182-189
TopSortLock(t) ==
    /\ pc[t] = "TopSort_lock"
    /\ RLock(t, "TopSort_loop")
    /\ order' = [order EXCEPT ![t] = NewOrder(Cardinality(DOMAIN nodes))]
    /\ idx' = [idx EXCEPT ![t] = FirstIndex(Cardinality(DOMAIN nodes))]
    /\ seen' = [seen EXCEPT ![t] = {}]
    /\ todo' = [todo EXCEPT ![t] = DOMAIN nodes]
    /\ UNCHANGED <<graphVars, op, ret, calls, queueVars, rs, stack>>

\* line 195: return order (the deferred RUnlock runs)
TopSortDone(t) ==
    /\ pc[t] = "TopSort_loop"
    /\ todo[t] = {}
    /\ RUnlock
    /\ Return(t, Result(t, Nil, order[t]))
    /\ NoLocals(t)
    /\ UNCHANGED <<graphVars, calls, queueVars>>

\* lines 190-192
TopSortSkip(t) ==
    /\ pc[t] = "TopSort_loop"
    /\ \E key \in todo[t] :
         /\ key \in seen[t]
         /\ todo' = [todo EXCEPT ![t] = @ \ {key}]
    /\ UNCHANGED <<graphVars, lockVars, pc, op, ret, calls, queueVars, seen, rs, stack, order, idx>>

\* lines 193 and 165: topSort is entered on the key
TopSortRoot(t) ==
    /\ pc[t] = "TopSort_loop"
    /\ \E key \in todo[t] :
         /\ key \notin seen[t]
         /\ todo' = [todo EXCEPT ![t] = @ \ {key}]
         /\ seen' = [seen EXCEPT ![t] = @ \cup {key}]
         /\ stack' = [stack EXCEPT ![t] = <<Frame(key)>>]
    /\ pc' = [pc EXCEPT ![t] = "TopSort_dfs"]
    /\ UNCHANGED <<graphVars, lockVars, op, ret, calls, queueVars, rs, order, idx>>

\* mutant: the test of line 168 inverted
Visited_Inverted(t, to) == to \notin seen[t]

\* line 168: seen[to]
Visited(t, to) == to \in seen[t]

\* lines 167-170: the range yields a key already seen: continue
TopDFSSkip(t) ==
    /\ pc[t] = "TopSort_dfs"
    /\ \E to \in Top(t).rest :
         /\ Visited(t, to)
         /\ stack' = [stack EXCEPT ![t] = Yield(t, to)]
    /\ UNCHANGED <<graphVars, lockVars, pc, op, ret, calls, queueVars, seen, rs, todo, order, idx>>

\* lines 167-171 and 165: the range yields an unseen key: topSort is entered on it
TopDFSDescend(t) ==
    /\ pc[t] = "TopSort_dfs"
    /\ \E to \in Top(t).rest :
         /\ ~Visited(t, to)
         /\ seen' = [seen EXCEPT ![t] = @ \cup {to}]
         /\ stack' = [stack EXCEPT ![t] = Append(Yield(t, to), Frame(to))]
    /\ UNCHANGED <<graphVars, lockVars, pc, op, ret, calls, queueVars, rs, todo, order, idx>>

\* lines 173-174: order[i] = key; return i - 1
TopDFSPlace(t) ==
    /\ pc[t] = "TopSort_dfs"
    /\ Top(t).rest = {}
    /\ IF idx[t] \in DOMAIN order[t]
       THEN /\ order' = [order EXCEPT ![t][idx[t]] = Top(t).key]
            /\ idx' = [idx EXCEPT ![t] = @ - 1]
            /\ stack' = [stack EXCEPT ![t] = Pop(t)]
            /\ pc' = [pc EXCEPT ![t] = IF Len(stack[t]) > 1 THEN "TopSort_dfs"
                                                          ELSE "TopSort_loop"]
            /\ UNCHANGED lockVars
       ELSE \* index out of range: the goroutine panics, the deferred RUnlock runs
            /\ pc' = [pc EXCEPT ![t] = "panic"]
            /\ RUnlock
            /\ UNCHANGED <<order, idx, stack>>
    /\ UNCHANGED <<graphVars, op, ret, calls, queueVars, seen, rs, todo>>

TopSort(t) ==
    TopSortLock(t) \/ TopSortDone(t) \/ TopSortSkip(t) \/ TopSortRoot(t)
    \/ TopDFSSkip(t) \/ TopDFSDescend(t) \/ TopDFSPlace(t)

(***************************************************************************)
(* Spec: NumThreads goroutines share a graph created by New (lines 29-34)  *)
(* and call any method with any arguments.                                 *)
(***************************************************************************)
\* the zero value of Queue: no items, lock free
NewQueue ==
    /\ data = <<>>
    /\ qreaders = 0
    /\ qwriter = NoThread

New ==
    /\ nodes = <<>>
    /\ edges = <<>>
    /\ readers = 0
    /\ writer = NoThread

Idle(T) ==
    /\ pc = [t \in T |-> "idle"]
    /\ op = [t \in T |-> NoOp]
    /\ ret = [t \in T |-> NoRet]
    /\ calls = 0
    /\ seen = [t \in T |-> {}]
    /\ rs = [t \in T |-> {}]
    /\ stack = [t \in T |-> <<>>]
    /\ todo = [t \in T |-> {}]
    /\ order = [t \in T |-> <<>>]
    /\ idx = [t \in T |-> 0]

Init == New /\ NewQueue /\ Idle(Threads)

Step(t) ==
    \/ NewNode(t) \/ Value(t) \/ UpdateValue(t) \/ NewEdge(t) \/ Edges(t)
    \/ Nodes(t) \/ IsCyclic(t) \/ TopSort(t) \/ String(t)

Next == \E t \in Threads : Call(t) \/ Step(t)

Spec == Init /\ [][Next]_vars

(***************************************************************************)
(* TravSpec: one goroutine runs IsCyclic, TopSort or Edges on a graph that *)
(* NewNode and NewEdge can build: any set of at most GraphKeys keys, any   *)
(* set of at most MaxEdges edges between them (the edges from a key being  *)
(* the `to` of the successful NewEdge calls on it).  The stored values     *)
(* play no part in any of the three.                                       *)
(***************************************************************************)
EdgeCount(e) ==
    Cardinality({<<k, l>> \in (DOMAIN e) \X (DOMAIN e) : l \in e[k]})

Graphs ==
    UNION {{[n |-> [k \in N |-> "v1"], e |-> e] :
                e \in {f \in [N -> SUBSET N] : EdgeCount(f) <= MaxEdges}}
           : N \in SUBSET KeySet(GraphKeys)}

TravInit ==
    /\ \E g \in Graphs : nodes = g.n /\ edges = g.e
    /\ readers = 0
    /\ writer = NoThread
    /\ NewQueue
    /\ Idle({1})

TravCall(t) ==
    /\ calls < MaxTravCalls
    /\ \E c \in {[name |-> n, args |-> <<>>] : n \in {"IsCyclic", "TopSort"}}
                \cup {[name |-> "Edges", args |-> <<k>>] : k \in KeySet(GraphKeys)} :
          Invoke(t, c)

TravNext == TravCall(1) \/ IsCyclic(1) \/ TopSort(1) \/ Edges(1)

TravSpec == TravInit /\ [][TravNext]_vars

(***************************************************************************)
(* ScenarioSpec: NumWriters goroutines each call NewNode once, each on its *)
(* own key; when all of them have returned, NumReaders goroutines call     *)
(* Value and IsCyclic concurrently.  With pairwise distinct keys and no    *)
(* edge, four steps are never enabled (ScenarioOmitted, checked with C4)   *)
(* and are left out of ScenarioNext: NewNodeExists, IsCyclicSkip,          *)
(* DFSBackEdge and DFSDescend.                                             *)
(***************************************************************************)
Writers == 1..NumWriters
Readers == (NumWriters + 1)..(NumWriters + NumReaders)
KeyOf(t) == KeyNames[t]

WritersDone == \A w \in Writers : pc[w] = "idle" /\ ret[w] # NoRet

ScenarioInit == New /\ NewQueue /\ Idle(Writers \cup Readers)

WriterCall(t) ==
    /\ ret[t] = NoRet
    /\ \E v \in Values : Invoke(t, [name |-> "NewNode", args |-> <<KeyOf(t), v>>])

ReaderCall(t) ==
    /\ WritersDone
    /\ calls < NumWriters + MaxReads
    /\ \E c \in {[name |-> "Value", args |-> <<k>>] : k \in KeySet(NumWriters + 1)}
                \cup {[name |-> "IsCyclic", args |-> <<>>]} : Invoke(t, c)

ScenarioNext ==
    \/ \E t \in Writers :
          \/ WriterCall(t)
          \/ NewNodeLock(t) \/ NewNodeFresh(t) \/ NewNodeStore(t) \/ NewNodeEdges(t)
    \/ \E t \in Readers :
          \/ ReaderCall(t)
          \/ Value(t)
          \/ IsCyclicLock(t) \/ IsCyclicRoot(t) \/ DFSReturn(t) \/ IsCyclicDone(t)

ScenarioSpec == ScenarioInit /\ [][ScenarioNext]_vars

(***************************************************************************)
(* Properties of the traversals, checked under TravSpec.                   *)
(***************************************************************************)
\* the keys reachable from the keys of S by a directed path of one or more edges
RECURSIVE Descendants(_)
Descendants(S) ==
    LET next == S \cup UNION {edges[k] : k \in S}
    IN  IF next = S THEN S ELSE Descendants(next)

ReachableFrom(k) == Descendants(edges[k])

\* a non-empty directed path leads from some node back to itself
HasDirectedCycle == \E k \in DOMAIN edges : k \in ReachableFrom(k)

Returned(t, name) == pc[t] = "idle" /\ ret[t].name = name

\* C1: IsCyclic returns true if and only if the graph contains a directed
\* cycle (self-loops and cycles in any partition included), whatever order
\* the node table and the successor sets are iterated in.
C1_IsCyclicIffCycle ==
    \A t \in DOMAIN pc :
        Returned(t, "IsCyclic") => (ret[t].val <=> HasDirectedCycle)

\* IsCyclic has returned true on a graph without self-loop whose cycle lies
\* apart from an isolated node
C1_Witness ==
    /\ Returned(1, "IsCyclic")
    /\ ret[1].val = TRUE
    /\ \A k \in DOMAIN edges : k \notin edges[k]
    /\ \E k \in DOMAIN edges :
         edges[k] = {} /\ \A l \in DOMAIN edges : k \notin edges[l]

\* C2: on an acyclic graph TopSort returns a sequence in which, for every
\* edge u -> v, u stands at a strictly smaller index than v.
C2_TopSortOrdersEdges ==
    \A t \in DOMAIN pc :
        (Returned(t, "TopSort") /\ ~HasDirectedCycle) =>
            \A u \in DOMAIN edges : \A v \in edges[u] :
                \E i \in DOMAIN ret[t].val : \E j \in DOMAIN ret[t].val :
                    ret[t].val[i] = u /\ ret[t].val[j] = v /\ i < j

\* TopSort has returned on an acyclic graph of three nodes and three edges
C2_Witness ==
    /\ Returned(1, "TopSort")
    /\ ~HasDirectedCycle
    /\ Cardinality(DOMAIN nodes) = 3
    /\ EdgeCount(edges) = 3

InTopSort(t) == pc[t] \in {"TopSort_loop", "TopSort_dfs"}
OnStack(t) == {stack[t][j].key : j \in DOMAIN stack[t]}
Placed(o) == {j \in DOMAIN o : o[j] # ""}

\* C8: on every graph TopSort gives every node exactly one slot: during the
\* traversal the slots above i hold the finished nodes, one each, the slots
\* up to i are empty (so no slot is written twice), i falls below 0 only
\* when every node is placed, no write falls outside the slice; the sequence
\* returned has one slot per node and holds every node key exactly once.
C8_TopSortPlacesEachNodeOnce ==
    \A t \in DOMAIN pc :
        /\ pc[t] # "panic"
        /\ InTopSort(t) =>
            /\ DOMAIN order[t] = 0..(Cardinality(DOMAIN nodes) - 1)
            /\ Placed(order[t]) = {j \in DOMAIN order[t] : j > idx[t]}
            /\ {order[t][j] : j \in Placed(order[t])} = seen[t] \ OnStack(t)
            /\ Cardinality(Placed(order[t])) = Cardinality(seen[t] \ OnStack(t))
            /\ idx[t] >= -1
            /\ (idx[t] = -1) => (seen[t] \ OnStack(t) = DOMAIN nodes)
        /\ Returned(t, "TopSort") =>
            /\ DOMAIN ret[t].val = 0..(Cardinality(DOMAIN nodes) - 1)
            /\ {ret[t].val[j] : j \in DOMAIN ret[t].val} = DOMAIN nodes
            /\ \A i \in DOMAIN ret[t].val : \A j \in DOMAIN ret[t].val :
                   ret[t].val[i] = ret[t].val[j] => i = j

\* TopSort has returned on a cyclic graph of three nodes, one with a self-loop
C8_Witness ==
    /\ Returned(1, "TopSort")
    /\ Cardinality(DOMAIN nodes) = 3
    /\ \E k \in DOMAIN edges : k \in edges[k]
    /\ \E k \in DOMAIN edges : \E l \in edges[k] : l # k /\ k \in ReachableFrom(l)

(***************************************************************************)
(* Properties of the methods, checked under Spec.                          *)
(***************************************************************************)
\* thread t returns from its call in this step
Returns(t) == pc[t] # "idle" /\ pc'[t] = "idle"
Arg(t, j) == op[t].args[j]

\* C5: NewNode(k, v) on a key that is absent succeeds and stores v for k, and
\* Value(k) returns the value stored; NewNode on a key that is present fails
\* with ErrorNodeAlreadyExists and leaves the stored value and the successor
\* sets as they are.
C5_NewNode ==
    [][\A t \in Threads :
        /\ (pc[t] = "NewNode_check" /\ pc'[t] # pc[t]) =>
              IF Has(Arg(t, 1))
              THEN /\ Returns(t)
                   /\ ret'[t].err = ErrorNodeAlreadyExists
                   /\ nodes' = nodes
                   /\ edges' = edges
              ELSE pc'[t] = "NewNode_store"
        /\ (pc[t] = "NewNode_store" /\ pc'[t] # pc[t]) =>
              /\ pc'[t] = "NewNode_edges"
              /\ nodes'[Arg(t, 1)] = Arg(t, 2)
        /\ (pc[t] = "NewNode_edges" /\ pc'[t] # pc[t]) =>
              /\ Returns(t)
              /\ ret'[t].err = Nil
              /\ nodes' = nodes
              /\ nodes'[Arg(t, 1)] = Arg(t, 2)
              /\ edges'[Arg(t, 1)] = {}
        /\ (pc[t] = "Value_body" /\ Returns(t) /\ Has(Arg(t, 1))) =>
              /\ ret'[t].err = Nil
              /\ ret'[t].val = nodes[Arg(t, 1)]
      ]_vars

\* a second NewNode(k, v2) has failed on a key that holds another value and
\* has an edge added since the first
C5_Witness ==
    \E t \in Threads :
        /\ Returned(t, "NewNode")
        /\ ret[t].err = ErrorNodeAlreadyExists
        /\ Has(ret[t].args[1])
        /\ nodes[ret[t].args[1]] # ret[t].args[2]
        /\ edges[ret[t].args[1]] # {}

\* C6: on a key absent from the node table Value, UpdateValue and Edges fail
\* with ErrorNodeNotFound, and leave the node table and the adjacency table
\* as they are.
C6_AbsentKey ==
    [][\A t \in Threads :
        (/\ pc[t] \in {"Value_body", "UpdateValue_body", "Edges_body"}
         /\ ~Has(Arg(t, 1))
         /\ pc'[t] # pc[t]) =>
              /\ Returns(t)
              /\ ret'[t].err = ErrorNodeNotFound
              /\ nodes' = nodes
              /\ edges' = edges
      ]_vars

\* UpdateValue and Edges have both failed on a key that is still absent
C6_Witness ==
    /\ Returned(1, "UpdateValue")
    /\ ret[1].err = ErrorNodeNotFound
    /\ Returned(2, "Edges")
    /\ ret[2].err = ErrorNodeNotFound
    /\ ret[1].args[1] = ret[2].args[1]
    /\ ~Has(ret[1].args[1])

\* C7: NewEdge(a, b) fails with ErrorNodeNotFound and adds nothing when a or b
\* is absent; otherwise it succeeds (a = b and cycles included), adds b to the
\* successors of a and nothing else, and changes nothing when the edge is
\* there already.
C7_NewEdge ==
    [][\A t \in Threads :
        (pc[t] = "NewEdge_body" /\ pc'[t] # pc[t]) =>
            /\ Returns(t)
            /\ nodes' = nodes
            /\ IF ~Has(Arg(t, 1)) \/ ~Has(Arg(t, 2))
               THEN /\ ret'[t].err = ErrorNodeNotFound
                    /\ edges' = edges
               ELSE /\ ret'[t].err = Nil
                    /\ DOMAIN edges' = DOMAIN edges
                    /\ \A k \in DOMAIN edges :
                          edges'[k] = IF k = Arg(t, 1)
                                      THEN edges[k] \cup {Arg(t, 2)}
                                      ELSE edges[k]
                    /\ (Arg(t, 2) \in edges[Arg(t, 1)]) => (edges' = edges)
      ]_vars

\* both threads have added the same self-loop, and the successor set holds it
C7_Witness ==
    /\ Returned(1, "NewEdge")
    /\ Returned(2, "NewEdge")
    /\ ret[1].err = Nil
    /\ ret[2].err = Nil
    /\ ret[1].args = ret[2].args
    /\ ret[1].args[1] = ret[1].args[2]
    /\ edges[ret[1].args[1]] = {ret[1].args[1]}

\* thread t holds the lock, or has returned from Edges without releasing it
InCritical(t) ==
    pc[t] \notin {"idle", "panic", "NewNode_lock", "Value_lock", "UpdateValue_lock",
                  "NewEdge_lock", "Edges_lock", "Nodes_lock", "IsCyclic_lock",
                  "TopSort_lock", "String_lock"}

\* C9: whenever the adjacency table lacks the entry of a node key, a NewNode
\* is between its two writes and no other thread is inside a critical
\* section: what a thread holding the lock observes has the same keys in
\* both tables.
C9_TablesAgreeUnderLock ==
    (DOMAIN edges # DOMAIN nodes) =>
        \E t \in Threads :
            /\ pc[t] = "NewNode_edges"
            /\ DOMAIN nodes = DOMAIN edges \cup {op[t].args[1]}
            /\ \A u \in Threads \ {t} : ~InCritical(u)

\* a NewNode is between its two writes while a reader waits for the lock
C9_Witness ==
    \E t \in Threads : \E u \in Threads :
        /\ pc[t] = "NewNode_edges"
        /\ DOMAIN edges # DOMAIN nodes
        /\ pc[u] \in {"Value_lock", "Edges_lock", "Nodes_lock", "IsCyclic_lock",
                      "TopSort_lock", "String_lock"}

\* C10: both ends of every edge of the adjacency table are keys of the node
\* table.
C10_EdgeEndsExist ==
    \A k \in DOMAIN edges : k \in DOMAIN nodes /\ edges[k] \subseteq DOMAIN nodes

\* an edge between two different nodes is recorded
C10_Witness ==
    \E k \in DOMAIN edges : \E l \in edges[k] : l # k

(***************************************************************************)
(* FairSpec: the scheduler lets every goroutine that can take a step take  *)
(* one.                                                                    *)
(***************************************************************************)
FairSpec == Spec /\ \A t \in Threads : WF_vars(Step(t))

\* C3: every call that is invoked returns.
C3_EveryCallReturns ==
    \A t \in Threads : (pc[t] # "idle") ~> (pc[t] = "idle")

(***************************************************************************)
(* Properties of the add-then-read scenario, checked under ScenarioSpec.   *)
(***************************************************************************)
ScenarioStep(t) == NewNode(t) \/ Value(t) \/ IsCyclic(t)

\* the steps ScenarioNext leaves out are never enabled
ScenarioOmitted ==
    \A t \in DOMAIN pc :
        ~ENABLED (NewNodeExists(t) \/ IsCyclicSkip(t) \/ DFSBackEdge(t) \/ DFSDescend(t))

\* C4: in the scenario some thread can take a step as long as a call is in
\* progress, every NewNode that has returned has succeeded, and once the
\* writers are done the node table holds exactly their keys.
C4_Scenario ==
    /\ ScenarioOmitted
    /\ (\E t \in DOMAIN pc : pc[t] # "idle") =>
           \E t \in DOMAIN pc : ENABLED ScenarioStep(t)
    /\ \A w \in Writers : Returned(w, "NewNode") => ret[w].err = Nil
    /\ WritersDone =>
           /\ DOMAIN nodes = {KeyOf(w) : w \in Writers}
           /\ Cardinality(DOMAIN nodes) = NumWriters

\* all writers are done, one reader has returned from IsCyclic while another
\* is inside Value
C4_Witness ==
    /\ WritersDone
    /\ \E r \in Readers : \E q \in Readers :
          /\ Returned(r, "IsCyclic")
          /\ pc[q] = "Value_body"

(***************************************************************************)
(* Properties of the locking discipline, checked under Spec.               *)
(***************************************************************************)
InWrite(t) ==
    pc[t] \in {"NewNode_check", "NewNode_store", "NewNode_edges",
               "UpdateValue_body", "NewEdge_body"}

\* C11: while a mutating method (NewNode, NewEdge, UpdateValue) is inside its
\* critical section no other method is inside its own; only the read-only
\* methods overlap with each other.
C11_WritersExclude ==
    \A t \in Threads :
        InWrite(t) =>
            /\ writer = t
            /\ \A u \in Threads \ {t} : ~InCritical(u)

\* an UpdateValue or NewEdge is inside its critical section while the other
\* thread has called a method and waits for the lock
C11_Witness ==
    \E t \in Threads : \E u \in Threads \ {t} :
        /\ pc[t] \in {"UpdateValue_body", "NewEdge_body"}
        /\ pc[u] \notin {"idle", "panic"}
        /\ ~InCritical(u)

\* C15: every method releases the lock before it returns: when no call is in
\* progress no read lock and no write lock is held.
C15_LockFreeWhenIdle ==
    (\A t \in Threads : pc[t] = "idle") => (readers = 0 /\ writer = NoThread)

\* C19: a successful UpdateValue(k, v) stores v for k and changes neither the
\* set of node keys, nor the value of another key, nor the adjacency table;
\* a Value(k) returns the value stored for k at a moment when no UpdateValue
\* is inside its critical section, that is the old or the new value.
C19_UpdateValueFrame ==
    [][\A t \in Threads :
        /\ (pc[t] = "UpdateValue_body" /\ pc'[t] # pc[t] /\ Has(Arg(t, 1))) =>
              /\ Returns(t)
              /\ ret'[t].err = Nil
              /\ DOMAIN nodes' = DOMAIN nodes
              /\ nodes'[Arg(t, 1)] = Arg(t, 2)
              /\ \A k \in DOMAIN nodes \ {Arg(t, 1)} : nodes'[k] = nodes[k]
              /\ edges' = edges
        /\ (pc[t] = "Value_body" /\ pc'[t] # pc[t] /\ Has(Arg(t, 1))) =>
              /\ ret'[t].val = nodes[Arg(t, 1)]
              /\ nodes' = nodes
              /\ \A u \in Threads : pc[u] # "UpdateValue_body"
      ]_vars

\* a Value(k) has returned the old value and an UpdateValue(k, v) of the other
\* thread, called while that Value was in progress or before, has then stored
\* a new one; k keeps its successors
C19_Witness ==
    \E t \in Threads : \E u \in Threads \ {t} :
        /\ Returned(t, "UpdateValue")
        /\ ret[t].err = Nil
        /\ Returned(u, "Value")
        /\ ret[u].err = Nil
        /\ ret[u].args[1] = ret[t].args[1]
        /\ ret[u].val # ret[t].args[2]
        /\ nodes[ret[t].args[1]] = ret[t].args[2]
        /\ edges[ret[t].args[1]] # {}

(***************************************************************************)
(* Properties of Edges, checked under TravSpec.                            *)
(***************************************************************************)
Range(q) == {q[j] : j \in DOMAIN q}

\* C12: on an existing node Edges(from) returns without error the direct
\* successors of `from`, each once and nothing else (no node that is only
\* reachable through another); for a node without outgoing edge the result
\* is empty.
C12_EdgesDirectSuccessors ==
    \A t \in DOMAIN pc :
        (Returned(t, "Edges") /\ Has(ret[t].args[1])) =>
            /\ ret[t].err = Nil
            /\ Range(ret[t].val) = edges[ret[t].args[1]]
            /\ Len(ret[t].val) = Cardinality(edges[ret[t].args[1]])
            /\ (edges[ret[t].args[1]] = {}) => (ret[t].val = <<>>)

\* Edges has returned one key for a node from which a second key is reachable
\* through the first only
C12_Witness ==
    /\ Returned(1, "Edges")
    /\ ret[1].err = Nil
    /\ Len(ret[1].val) = 1
    /\ ReachableFrom(ret[1].args[1]) \ (Range(ret[1].val) \cup {ret[1].args[1]}) # {}

(***************************************************************************)
(* Properties of the depth-first searches, checked under TravSpec and,     *)
(* for termination, under TravFairSpec: the goroutine that runs a method   *)
(* keeps being scheduled.                                                  *)
(***************************************************************************)
InDFS(t) == pc[t] = "IsCyclic_dfs"
InTraversal(t) ==
    pc[t] \in {"IsCyclic_loop", "IsCyclic_dfs", "TopSort_loop", "TopSort_dfs"}

\* C16: within one IsCyclic call isCyclicDFS is not entered on a key that is
\* marked seen already (a node whose exploration is complete is not explored
\* again).
C16_ExploredAtMostOnce ==
    [][\A t \in DOMAIN pc :
        (InDFS(t) /\ pc'[t] = pc[t] /\ Len(stack'[t]) > Len(stack[t])) =>
            stack'[t][Len(stack'[t])].key \notin seen[t]
      ]_vars

\* C17: while isCyclicDFS calls are active the keys marked in rs are exactly
\* the keys of those calls, one call per key; a mark is cleared only for the
\* call that returns, whose range is exhausted; IsCyclic returns true from
\* the search only on an edge that leads to the key of an active call.
C17_PathMarks ==
    [][\A t \in DOMAIN pc :
        /\ InDFS(t) =>
              /\ rs[t] = OnStack(t)
              /\ Cardinality(OnStack(t)) = Len(stack[t])
        /\ InDFS(t)' =>
              /\ rs'[t] = OnStack(t)'
              /\ Cardinality(OnStack(t)') = Len(stack'[t])
        /\ (InDFS(t) /\ InDFS(t)') =>
              \A k \in rs[t] \ rs'[t] : Top(t).key = k /\ Top(t).rest = {}
        /\ (InDFS(t) /\ Returns(t)) =>
              /\ ret'[t].val = TRUE
              /\ \E to \in Top(t).rest : to \in OnStack(t)
      ]_vars

\* two isCyclicDFS calls are active after a third has returned and had its
\* mark cleared
C17_Witness ==
    /\ InDFS(1)
    /\ Len(stack[1]) = 2
    /\ seen[1] \ rs[1] # {}

TravStep(t) == IsCyclic(t) \/ TopSort(t) \/ Edges(t)

TravFairSpec == TravSpec /\ WF_vars(TravStep(1))

\* C18: IsCyclic and TopSort, once they hold the lock, return; the active
\* isCyclicDFS / topSort calls are on pairwise different keys, so they are
\* never more than there are nodes.
C18_TraversalsTerminate ==
    /\ [](/\ Len(stack[1]) <= Cardinality(DOMAIN nodes)
          /\ Cardinality(OnStack(1)) = Len(stack[1]))
    /\ InTraversal(1) ~> (pc[1] = "idle")

\* on a cyclic graph as many topSort calls are active as there are nodes
C18_Witness ==
    /\ pc[1] = "TopSort_dfs"
    /\ HasDirectedCycle
    /\ Len(stack[1]) = 3
    /\ Cardinality(DOMAIN nodes) = 3

(***************************************************************************)
(* Queue (package queue): a slice guarded by its own sync.RWMutex.         *)
(***************************************************************************)
MaxQueueCalls == 4      \* calls issued in one behaviour of QueueSpec
Items == {"x", "y"}
QueueThreads == {1, 2}  \* goroutines of QueueSpec

ErrorEmpty == "empty queue"

QueueLock(t, next) ==
    /\ qwriter = NoThread /\ qreaders = 0
    /\ qwriter' = t
    /\ qreaders' = qreaders
    /\ pc' = [pc EXCEPT ![t] = next]

QueueRLock(t, next) ==
    /\ qwriter = NoThread
    /\ qreaders' = qreaders + 1
    /\ qwriter' = qwriter
    /\ pc' = [pc EXCEPT ![t] = next]

QueueUnlock == qwriter' = NoThread /\ qreaders' = qreaders
QueueRUnlock == qreaders' = qreaders - 1 /\ qwriter' = qwriter

\* Len (lines 20-24)
QueueLenLock(t) ==
    /\ pc[t] = "Len_lock"
    /\ QueueRLock(t, "Len_body")
    /\ UNCHANGED <<graphVars, lockVars, op, ret, calls, travVars, data>>

QueueLenBody(t) ==
    /\ pc[t] = "Len_body"
    /\ Return(t, Result(t, Nil, Len(data)))
    /\ QueueRUnlock
    /\ UNCHANGED <<graphVars, lockVars, calls, travVars, data>>

QueueLen(t) == QueueLenLock(t) \/ QueueLenBody(t)

\* Add (lines 27-31)
QueueAddLock(t) ==
    /\ pc[t] = "Add_lock"
    /\ QueueLock(t, "Add_body")
    /\ UNCHANGED <<graphVars, lockVars, op, ret, calls, travVars, data>>

QueueAddBody(t) ==
    /\ pc[t] = "Add_body"
    /\ data' = Append(data, op[t].args[1])
    /\ Return(t, Result(t, Nil, Nil))
    /\ QueueUnlock
    /\ UNCHANGED <<graphVars, lockVars, calls, travVars>>

QueueAdd(t) == QueueAddLock(t) \/ QueueAddBody(t)

\* Peek (lines 34-41)
QueuePeekLock(t) ==
    /\ pc[t] = "Peek_lock"
    /\ QueueRLock(t, "Peek_body")
    /\ UNCHANGED <<graphVars, lockVars, op, ret, calls, travVars, data>>

\* mutant: line 37 tests for a queue that is not empty
QueuePeekBody_Inverted(t) ==
    /\ pc[t] = "Peek_body"
    /\ Return(t, IF Len(data) # 0
                 THEN Result(t, ErrorEmpty, Nil)
                 ELSE Result(t, Nil, Nil))
    /\ QueueRUnlock
    /\ UNCHANGED <<graphVars, lockVars, calls, travVars, data>>

QueuePeekBody(t) ==
    /\ pc[t] = "Peek_body"
    /\ Return(t, IF Len(data) = 0
                 THEN Result(t, ErrorEmpty, Nil)
                 ELSE Result(t, Nil, data[1]))
    /\ QueueRUnlock
    /\ UNCHANGED <<graphVars, lockVars, calls, travVars, data>>

QueuePeek(t) == QueuePeekLock(t) \/ QueuePeekBody(t)

\* Remove (lines 44-53)
QueueRemoveLock(t) ==
    /\ pc[t] = "Remove_lock"
    /\ QueueLock(t, "Remove_body")
    /\ UNCHANGED <<graphVars, lockVars, op, ret, calls, travVars, data>>

\* mutant: lines 50-51 take the item at the end of the slice
QueueRemoveBody_Last(t) ==
    /\ pc[t] = "Remove_body"
    /\ IF Len(data) = 0
       THEN /\ data' = data
            /\ Return(t, Result(t, ErrorEmpty, Nil))
       ELSE /\ data' = SubSeq(data, 1, Len(data) - 1)
            /\ Return(t, Result(t, Nil, data[Len(data)]))
    /\ QueueUnlock
    /\ UNCHANGED <<graphVars, lockVars, calls, travVars>>

QueueRemoveBody(t) ==
    /\ pc[t] = "Remove_body"
    /\ IF Len(data) = 0
       THEN /\ data' = data
            /\ Return(t, Result(t, ErrorEmpty, Nil))
       ELSE /\ data' = SubSeq(data, 2, Len(data))
            /\ Return(t, Result(t, Nil, data[1]))
    /\ QueueUnlock
    /\ UNCHANGED <<graphVars, lockVars, calls, travVars>>

QueueRemove(t) == QueueRemoveLock(t) \/ QueueRemoveBody(t)

(***************************************************************************)
(* QueueSpec: the goroutines of QueueThreads issue MaxQueueCalls calls of  *)
(* Add, Peek, Remove and Len on one queue, in any interleaving.            *)
(***************************************************************************)
QueueCalls ==
    {[name |-> "Add", args |-> <<x>>] : x \in Items}
    \cup {[name |-> n, args |-> <<>>] : n \in {"Peek", "Remove", "Len"}}

QueueCall(t) ==
    /\ calls < MaxQueueCalls
    /\ \E c \in QueueCalls : Invoke(t, c)

QueueStep(t) == QueueLen(t) \/ QueueAdd(t) \/ QueuePeek(t) \/ QueueRemove(t)

QueueInit == New /\ NewQueue /\ Idle(QueueThreads)

QueueNext == \E t \in QueueThreads : QueueCall(t) \/ QueueStep(t)

QueueSpec == QueueInit /\ [][QueueNext]_vars

\* C13: the queue is first in, first out.  Add puts its item behind all items
\* held, Remove returns the item at the front and takes it (and nothing else)
\* out, Peek returns the item at the front and leaves the queue as it is, Len
\* returns the number of items held; no other step changes the items, so the
\* items held are the items added and not yet removed, oldest first, and
\* their number is the Adds minus the successful Removes.
C13_FIFO ==
    [][/\ \A t \in DOMAIN pc :
            Returns(t) =>
              /\ pc[t] = "Add_body" =>
                    /\ Len(data') = Len(data) + 1
                    /\ SubSeq(data', 1, Len(data)) = data
                    /\ data'[Len(data')] = Arg(t, 1)
              /\ (pc[t] = "Remove_body" /\ data # <<>>) =>
                    /\ ret'[t].err = Nil
                    /\ ret'[t].val = Head(data)
                    /\ data' = Tail(data)
              /\ (pc[t] = "Peek_body" /\ data # <<>>) =>
                    /\ ret'[t].err = Nil
                    /\ ret'[t].val = Head(data)
                    /\ data' = data
              /\ pc[t] = "Len_body" =>
                    /\ ret'[t].val = Len(data)
                    /\ data' = data
       /\ data' # data =>
            \E t \in DOMAIN pc : Returns(t) /\ pc[t] \in {"Add_body", "Remove_body"}
      ]_vars

\* a Remove returned the older of two different items and the newer one is
\* the one still held
C13_Witness ==
    \E t \in DOMAIN pc :
        /\ Returned(t, "Remove")
        /\ ret[t].err = Nil
        /\ data # <<>>
        /\ \A j \in DOMAIN data : data[j] # ret[t].val

\* C14: Peek and Remove return ErrorEmpty exactly when the queue holds no
\* item at the time they run, and then leave the queue as it is; Add and Len
\* return no error.
C14_ErrorEmpty ==
    [][\A t \in DOMAIN pc :
        Returns(t) =>
          /\ pc[t] \in {"Peek_body", "Remove_body"} =>
                /\ ret'[t].err = IF Len(data) = 0 THEN ErrorEmpty ELSE Nil
                /\ ret'[t].err = ErrorEmpty => (data' = data /\ ret'[t].val = Nil)
          /\ pc[t] \in {"Add_body", "Len_body"} => ret'[t].err = Nil
      ]_vars

\* a Remove found the queue empty and failed, and the Add of the other
\* goroutine has put an item in
C14_Witness ==
    /\ Returned(1, "Remove") /\ ret[1].err = ErrorEmpty
    /\ Returned(2, "Add")
    /\ data # <<>>

(***************************************************************************)
(* RaceSpec: NumRacers goroutines each call NewNode once, all with the     *)
(* same key, which the graph does not hold, and each with any value.       *)
(***************************************************************************)
NumRacers == 3
Racers == 1..NumRacers
RaceKey == "a"

RaceInit == New /\ NewQueue /\ Idle(Racers)

RaceCall(t) ==
    /\ ret[t] = NoRet
    /\ \E v \in Values : Invoke(t, [name |-> "NewNode", args |-> <<RaceKey, v>>])

RaceNext == \E t \in Racers : RaceCall(t) \/ NewNode(t)

RaceSpec == RaceInit /\ [][RaceNext]_vars

Winners == {t \in Racers : Returned(t, "NewNode") /\ ret[t].err = Nil}
Losers ==
    {t \in Racers : Returned(t, "NewNode") /\ ret[t].err = ErrorNodeAlreadyExists}

\* C20: of the NewNode calls that race for one absent key, never more than
\* one has returned success, and the value stored is the one it passed; once
\* all have returned exactly one has succeeded and all the others have
\* returned ErrorNodeAlreadyExists.
C20_OneWinner ==
    /\ Cardinality(Winners) <= 1
    /\ \A t \in Winners : Has(RaceKey) /\ nodes[RaceKey] = ret[t].args[2]
    /\ Losers # {} => Has(RaceKey)
    /\ (\A t \in Racers : Returned(t, "NewNode")) =>
          /\ Cardinality(Winners) = 1
          /\ Losers = Racers \ Winners

\* all calls have returned, and one that failed had passed a value other
\* than the one stored
C20_Witness ==
    /\ \A t \in Racers : Returned(t, "NewNode")
    /\ \E t \in Losers : ret[t].args[2] # nodes[RaceKey]

=============================================================================
